---- MODULE Spec2Model ----
(***************************************************************************)
(* A state-machine model of LEAF.py (LEAF-Toolbox).                        *)
(*                                                                         *)
(*  - makeProductCollection (the Product Collection Builder) is modelled   *)
(*    statement by statement: one action per statement group of lines      *)
(*    66-137, in program order.                                            *)
(*  - sampleSites / imageSites (the orchestration loops) are modelled one  *)
(*    action per statement group of lines 302-461 and 468-640; they call   *)
(*    getSamples / getImages, which call the builder.                      *)
(*                                                                         *)
(* The Earth Engine backend is modelled by what its documented operations  *)
(* do to a collection: a collection is a run-length encoded sequence of    *)
(* image blocks (n images sharing footprint, acquisition day, cloud cover  *)
(* and calendar month), a band-name set, the list of operations applied,   *)
(* and the pixels of one representative scene.                             *)
(***************************************************************************)
EXTENDS Integers, Sequences, FiniteSets, TLC

VARIABLES
    entry,             \* which function this behaviour runs
    args,              \* makeProductCollection's arguments
    world,             \* what the backend holds: archive, scene pixels, land cover
    pc,                \* the builder's next statement group
    nets,              \* numNets, SL2P, SL2Puncertainty (lines 69-73)
    input_collection,  \* the local input_collection
    partition,         \* the local partition (line 101)
    outputs,           \* the local outputs
    calls,             \* the dispatcher invocations made (lines 126-127)
    done,              \* statement groups executed so far, in order
    getInfo,           \* source lines of the blocking getInfo() calls made so far
    sites,             \* the state of sampleSites / imageSites
    conc,              \* concurrent invocations of makeProductCollection
    dateCall           \* one call of createDates

bvars == <<args, world, pc, nets, input_collection, partition, outputs, calls, done>>
vars == <<entry, args, world, pc, nets, input_collection, partition, outputs,
          calls, done, getInfo, sites, conc, dateCall>>

(***************************************************************************)
(* Bounds of the model.                                                    *)
(***************************************************************************)
MaxBlocks == 2      \* image blocks in the archive
MaxDay == 3         \* acquisition days are 0..MaxDay

(***************************************************************************)
(* Program constants.                                                      *)
(***************************************************************************)
MaxImages == 5000   \* .limit(5000)

Pixels == {"p1", "p2"}

Min(a, b) == IF a <= b THEN a ELSE b
Max(a, b) == IF a >= b THEN a ELSE b

RECURSIVE Count(_)
Count(images) ==
    IF images = <<>> THEN 0 ELSE Head(images).n + Count(Tail(images))

(***************************************************************************)
(* Pixel values.  A network output is kept as the term "network applied to *)
(* input": two outputs are equal exactly when the same network was applied *)
(* to the same input value.                                                *)
(***************************************************************************)
NoData == [tag |-> "nodata", col |-> "", var |-> 0, cls |-> 0, x |-> 0]

\* 4.1 Network Evaluator: y = denormalize(W2.tanh(W1.normalize(x)+b1)+b2)
NetworkEvaluator(x, net) ==
    [tag |-> "value", col |-> net.col, var |-> net.var, cls |-> net.cls, x |-> x]

\* toolsNets.makeNetVars: the networks of one variable, one per partition class
makeNetVars(collection, numNets, netNum) ==
    [k \in 1..numNets |-> [col |-> collection, var |-> netNum, cls |-> k]]

\* a plausible slip: 'lon' is not removed from the property names
numNetsKeepLon(colOptions) ==
    Cardinality(colOptions.Network_Ind \ {"Feature Index", "system:index"})

\* line 69: the number of networks is the number of properties of the first
\* Network_Ind feature other than lon, Feature Index and system:index
numNetsOf(colOptions) ==
    Cardinality(colOptions.Network_Ind \ {"lon", "Feature Index", "system:index"})

\* lines 72-73
MakeNetworks(colOptions) ==
    LET n == numNetsOf(colOptions) IN
    [numNets |-> n,
     SL2P |-> [v \in 1..colOptions.numVariables |->
                  makeNetVars(colOptions.Collection_SL2P, n, v)],
     SL2Puncertainty |-> [v \in 1..colOptions.numVariables |->
                  makeNetVars(colOptions.Collection_SL2Perrors, n, v)]]

\* 4.2 Partitioned Network Dispatcher (toolsNets.wrapperNNets): every class's
\* network is evaluated over the image, selected per pixel by partition
\* equality, and the per-class layers are merged
wrapperNNets(network, partitionBand, netOptions, px) ==
    LET netList == network[netOptions.variable]
        layer(k) == [p \in Pixels |->
                        IF partitionBand[p] = k /\ ~px[p].masked
                        THEN NetworkEvaluator(px[p].val, netList[k])
                        ELSE NoData]
        hits(p) == {k \in DOMAIN netList : layer(k)[p] # NoData}
    IN [p \in Pixels |->
            IF hits(p) = {} THEN NoData
            ELSE layer(CHOOSE k \in hits(p) : TRUE)[p]]

\* suffixName + outputName, the band a dispatcher invocation produces; line 128
\* selects it as "error" + variable, with the variable name as it was passed
BandOf(suffixName, variable) ==
    IF suffixName = "estimate"
    THEN CASE variable = "LAI" -> "estimateLAI"
           [] variable = "Surface_Reflectance" -> "estimateSurface_Reflectance"
           [] variable = "surface_reflectance" -> "estimatesurface_reflectance"
    ELSE CASE variable = "LAI" -> "errorLAI"
           [] variable = "Surface_Reflectance" -> "errorSurface_Reflectance"
           [] variable = "surface_reflectance" -> "errorsurface_reflectance"

(***************************************************************************)
(* Per-image transforms.  A collection is                                  *)
(*   [images, bands, ops, scale, px]                                       *)
(* and map(f) applies f to every image: the image count is unchanged.      *)
(***************************************************************************)
SourceBands == {"B4", "B8", "QA"}

SourceCollection(w) ==
    [images |-> w.archive, bands |-> SourceBands, ops |-> <<>>, scale |-> 0,
     px |-> [p \in Pixels |->
                [val |-> w.scene[p].val, clear |-> w.scene[p].clear,
                 land |-> w.scene[p].land, masked |-> FALSE, QC |-> 0,
                 est |-> NoData, err |-> NoData]]]

EmptyCollection ==
    [images |-> <<>>, bands |-> {}, ops |-> <<>>, scale |-> 0,
     px |-> [p \in Pixels |->
                [val |-> 0, clear |-> FALSE, land |-> FALSE, masked |-> TRUE,
                 QC |-> 0, est |-> NoData, err |-> NoData]]]

Op(col, name) == [col EXCEPT !.ops = Append(@, name)]

(***************************************************************************)
(* Backend collection algebra (ee.ImageCollection), as used on lines 76-81 *)
(***************************************************************************)
filterBounds(col, mapBounds) ==
    Op([col EXCEPT !.images =
          SelectSeq(@, LAMBDA b : b.footprint \cap mapBounds # {})], "filterBounds")

\* filterDate: start inclusive, end exclusive
filterDate(col, startDate, endDate) ==
    Op([col EXCEPT !.images =
          SelectSeq(@, LAMBDA b : startDate <= b.day /\ b.day < endDate)], "filterDate")

\* filterMetadata(property, 'less_than', value)
filterMetadataLessThan(col, maxCloudcover) ==
    Op([col EXCEPT !.images =
          SelectSeq(@, LAMBDA b : b.cloud < maxCloudcover)], "filterMetadata")

\* ee.Filter.calendarRange: inclusive, wraps around when start > end
calendarRange(col, rangeStart, rangeEnd) ==
    Op([col EXCEPT !.images =
          SelectSeq(@, LAMBDA b :
            IF rangeStart <= rangeEnd
            THEN rangeStart <= b.month /\ b.month <= rangeEnd
            ELSE b.month >= rangeStart \/ b.month <= rangeEnd)], "calendarRange")

\* the first k images of a run-length encoded image sequence
RECURSIVE FirstImages(_, _)
FirstImages(images, k) ==
    IF images = <<>> \/ k <= 0 THEN <<>>
    ELSE IF Head(images).n <= k
         THEN <<Head(images)>> \o FirstImages(Tail(images), k - Head(images).n)
         ELSE <<[Head(images) EXCEPT !.n = k]>>

\* limit(k)
limit(col, k) == Op([col EXCEPT !.images = FirstImages(@, k)], "limit")

\* lines 76-80: the four filters
Filtered(a, w) ==
    calendarRange(
        filterMetadataLessThan(
            filterDate(filterBounds(SourceCollection(w), a.mapBounds),
                       a.startDate, a.endDate),
            a.maxCloudcover),
        a.rangeStart, a.rangeEnd)

\* a plausible slip: the cap applied to the archive, before the filters
SelectLimitFirst(a, w) ==
    calendarRange(
        filterMetadataLessThan(
            filterDate(filterBounds(limit(SourceCollection(w), MaxImages), a.mapBounds),
                       a.startDate, a.endDate),
            a.maxCloudcover),
        a.rangeStart, a.rangeEnd)

\* lines 76-81: four filters, then the cap
SelectImages(a, w) == limit(Filtered(a, w), MaxImages)

\* tools.MaskClear: the sensor's clear-sky mask
MaskClear(col) ==
    Op([col EXCEPT !.px = [p \in Pixels |->
            [col.px[p] EXCEPT !.masked = @ \/ ~col.px[p].clear]]], "MaskClear")

\* eoImage.attach_Date, eoImage.attach_LonLat
attach_Date(col) == Op([col EXCEPT !.bands = @ \cup {"date"}], "attach_Date")
attach_LonLat(col) ==
    Op([col EXCEPT !.bands = @ \cup {"longitude", "latitude"}], "attach_LonLat")

\* lines 82-86
Enrich(col) ==
    Op(attach_LonLat(attach_Date(MaskClear(Op(col, "clip")))), "addGeometry")

\* lines 93-95: mean-reducer resampling to the working projection at inputScale
ReprojectIn(col, a) == Op([col EXCEPT !.scale = a.inputScale], "reprojectIn")

\* tools.MaskLand
MaskLand(col) ==
    Op([col EXCEPT !.px = [p \in Pixels |->
            [col.px[p] EXCEPT !.masked = @ \/ ~col.px[p].land]]], "MaskLand")

\* toolsUtils.scaleBands: scaled = raw*scale + offset
scaleBands(col, netOptions) ==
    Op([col EXCEPT !.px = [p \in Pixels |->
            [col.px[p] EXCEPT !.val = @ * netOptions.inputScaling
                                        + netOptions.inputOffset]]], "scaleBands")

\* line 98
MaskLandScale(col, a) == scaleBands(MaskLand(col), a.netOptions)

\* line 101: the land-cover mosaic over the region, renamed 'partition'
PartitionBand(a, w) == w.landcover

\* line 102
AttachPartition(col) ==
    Op([col EXCEPT !.bands = @ \cup {"partition"}], "addBands(partition)")

StartsWithS2SR(name) ==
    name \in {"COPERNICUS/S2_SR", "COPERNICUS/S2_SR_HARMONIZED"}

\* lines 105-110
S2Cloudless(col, a) ==
    IF StartsWithS2SR(a.colOptions.name)
    THEN Op([col EXCEPT !.bands = @ \cup {"s2cloudless_probability"}],
            "combine(s2cloudless)")
    ELSE col

\* toolsUtils.invalidInput: adds the QC band, set where an input is outside
\* its domain; the pixel itself is kept
invalidInput(col, colOptions) ==
    Op([col EXCEPT
          !.bands = @ \cup {"QC"},
          !.px = [p \in Pixels |->
                    [col.px[p] EXCEPT !.QC =
                        IF col.px[p].val < colOptions.sl2pDomain[1]
                           \/ col.px[p].val > colOptions.sl2pDomain[2]
                        THEN 1 ELSE 0]]], "invalidInput")

\* lines 120-123: the bands kept with the output
Carried(col) ==
    IF "s2cloudless_probability" \in col.bands
    THEN {"date", "QC", "longitude", "latitude", "s2cloudless_probability"}
    ELSE {"date", "QC", "longitude", "latitude"}

\* a variant that keeps every input band with the output
KeepAllBands(col) == Op(col, "select(carried)")

SelectCarried(col) == Op([col EXCEPT !.bands = Carried(col)], "select(carried)")


(***************************************************************************)
(* makeProductCollection, lines 51-137                                     *)
(***************************************************************************)
\* line 90: input_collection.size().getInfo() > 0
HasProductsAlways(col) == TRUE
HasProducts(col) == Count(col.images) > 0

\* line 113, with the lower-case spelling sampleSites uses as its default
IsReflectanceLower(variable) == variable = "surface_reflectance"
\* line 113: variable == "Surface_Reflectance"
IsReflectance(variable) == variable = "Surface_Reflectance"

\* the estimate invocation handed the error networks
EstimateCallErrorNets(n, part, a, col) ==
    [mode |-> "estimate", network |-> n.SL2Puncertainty, partition |-> part,
     input |-> col,
     out |-> wrapperNNets(n.SL2Puncertainty, part, a.netOptions, col.px)]

\* the estimate invocation applied only where the inputs are inside the domain
MaskFlagged(px) ==
    [p \in Pixels |-> [px[p] EXCEPT !.masked = @ \/ px[p].QC = 1]]
EstimateCallValidOnly(n, part, a, col) ==
    [mode |-> "estimate", network |-> n.SL2P, partition |-> part, input |-> col,
     out |-> wrapperNNets(n.SL2P, part, a.netOptions, MaskFlagged(col.px))]

\* line 126
EstimateCall(n, part, a, col) ==
    [mode |-> "estimate", network |-> n.SL2P, partition |-> part, input |-> col,
     out |-> wrapperNNets(n.SL2P, part, a.netOptions, col.px)]

\* the error invocation handed a partition band read through another legend
OtherLegend(part) == [p \in Pixels |-> IF part[p] = 1 THEN 2 ELSE part[p]]
UncertaintyCallOtherPartition(n, part, a, col) ==
    [mode |-> "error", network |-> n.SL2Puncertainty, partition |-> OtherLegend(part),
     input |-> col,
     out |-> wrapperNNets(n.SL2Puncertainty, OtherLegend(part), a.netOptions, col.px)]

\* line 127
UncertaintyCall(n, part, a, col) ==
    [mode |-> "error", network |-> n.SL2Puncertainty, partition |-> part,
     input |-> col,
     out |-> wrapperNNets(n.SL2Puncertainty, part, a.netOptions, col.px)]

\* lines 128-131: combine the carried bands with the estimate image and the
\* 'error'+variable band, then resample to outputScale with a mean reducer
CombineReprojectOut(out, est, err, a) ==
    Op([out EXCEPT
          !.bands = @ \cup {BandOf("estimate", a.variable), BandOf("error", a.variable)},
          !.px = [p \in Pixels |->
                    [out.px[p] EXCEPT !.est = est.out[p], !.err = err.out[p]]],
          !.scale = a.outputScale], "reprojectOut")

\* the order the specification's state machine gives: the empty check
\* before the per-image enrichment
AfterSpecOrder(p, c) ==
    CASE p = "networks"        -> "select"
      [] p = "select"          -> "emptyCheck"
      [] p = "emptyCheck"      -> IF c THEN "enrich" ELSE "emptyResult"
      [] p = "enrich"          -> "reprojectIn"
      [] p = "reprojectIn"     -> "maskLandScale"
      [] p = "maskLandScale"   -> "attachPartition"
      [] p = "attachPartition" -> "s2cloudless"
      [] p = "s2cloudless"     -> "branch"
      [] p = "branch"          -> IF c THEN "return" ELSE "carry"
      [] p = "carry"           -> "applyNets"
      [] p = "applyNets"       -> "combine"
      [] p = "combine"         -> "return"
      [] p = "emptyResult"     -> "return"
      [] OTHER                 -> "returned"

\* program order of the statement groups of lines 66-137; c is the outcome of
\* the condition the group evaluates (lines 90 and 113)
After(p, c) ==
    CASE p = "networks"        -> "select"
      [] p = "select"          -> "enrich"
      [] p = "enrich"          -> "emptyCheck"
      [] p = "emptyCheck"      -> IF c THEN "reprojectIn" ELSE "emptyResult"
      [] p = "reprojectIn"     -> "maskLandScale"
      [] p = "maskLandScale"   -> "attachPartition"
      [] p = "attachPartition" -> "s2cloudless"
      [] p = "s2cloudless"     -> "branch"
      [] p = "branch"          -> IF c THEN "return" ELSE "carry"
      [] p = "carry"           -> "applyNets"
      [] p = "applyNets"       -> "combine"
      [] p = "combine"         -> "return"
      [] p = "emptyResult"     -> "return"
      [] OTHER                 -> "returned"

Step(name, c) ==
    /\ pc = name
    /\ pc' = After(name, c)
    /\ done' = Append(done, name)
    /\ UNCHANGED <<entry, args, world, sites, conc, dateCall>>

\* the blocking getInfo() calls of a statement group, by source line: the size
\* of the collection (line 90) and the band names of its first image (line 120)
BlockingCalls(name) ==
    CASE name = "emptyCheck" -> <<90>>
      [] name = "carry"      -> <<120>>
      [] OTHER               -> <<>>

\* lines 66-73
Networks ==
    /\ Step("networks", TRUE)
    /\ nets' = MakeNetworks(args.colOptions)
    /\ UNCHANGED <<input_collection, partition, outputs, calls, getInfo>>

\* lines 76-81
Select ==
    /\ Step("select", TRUE)
    /\ input_collection' = SelectImages(args, world)
    /\ UNCHANGED <<nets, partition, outputs, calls, getInfo>>

\* lines 82-86
EnrichStep ==
    /\ Step("enrich", TRUE)
    /\ input_collection' = Enrich(input_collection)
    /\ UNCHANGED <<nets, partition, outputs, calls, getInfo>>

\* line 90
EmptyCheck ==
    /\ Step("emptyCheck", HasProducts(input_collection))
    /\ getInfo' = getInfo \o BlockingCalls("emptyCheck")
    /\ UNCHANGED <<nets, input_collection, partition, outputs, calls>>

\* lines 93-95
ReprojectInStep ==
    /\ Step("reprojectIn", TRUE)
    /\ input_collection' = ReprojectIn(input_collection, args)
    /\ UNCHANGED <<nets, partition, outputs, calls, getInfo>>

\* line 98
MaskLandScaleStep ==
    /\ Step("maskLandScale", TRUE)
    /\ input_collection' = MaskLandScale(input_collection, args)
    /\ UNCHANGED <<nets, partition, outputs, calls, getInfo>>

\* lines 101-102
AttachPartitionStep ==
    /\ Step("attachPartition", TRUE)
    /\ partition' = PartitionBand(args, world)
    /\ input_collection' = AttachPartition(input_collection)
    /\ UNCHANGED <<nets, outputs, calls, getInfo>>

\* lines 105-110
S2CloudlessStep ==
    /\ Step("s2cloudless", TRUE)
    /\ input_collection' = S2Cloudless(input_collection, args)
    /\ UNCHANGED <<nets, partition, outputs, calls, getInfo>>

\* lines 113-114: raw reflectance, the collection is returned as it is
PassThrough ==
    /\ IsReflectance(args.variable)
    /\ Step("branch", TRUE)
    /\ outputs' = input_collection
    /\ UNCHANGED <<nets, input_collection, partition, calls, getInfo>>

\* lines 115-117
InvalidInputStep ==
    /\ ~IsReflectance(args.variable)
    /\ Step("branch", FALSE)
    /\ input_collection' = invalidInput(input_collection, args.colOptions)
    /\ UNCHANGED <<nets, partition, outputs, calls, getInfo>>

\* lines 120-123
Carry ==
    /\ Step("carry", TRUE)
    /\ getInfo' = getInfo \o BlockingCalls("carry")
    /\ outputs' = SelectCarried(input_collection)
    /\ UNCHANGED <<nets, input_collection, partition, calls>>

\* lines 126-127
ApplyNets ==
    /\ Step("applyNets", TRUE)
    /\ calls' = <<EstimateCall(nets, partition, args, input_collection),
                  UncertaintyCall(nets, partition, args, input_collection)>>
    /\ UNCHANGED <<nets, input_collection, partition, outputs, getInfo>>

\* lines 128-131
Combine ==
    /\ Step("combine", TRUE)
    /\ outputs' = CombineReprojectOut(outputs, calls[1], calls[2], args)
    /\ UNCHANGED <<nets, input_collection, partition, calls, getInfo>>

\* lines 133-135
EmptyResult ==
    /\ Step("emptyResult", TRUE)
    /\ outputs' = EmptyCollection
    /\ UNCHANGED <<nets, input_collection, partition, calls, getInfo>>

\* line 137
Return ==
    /\ Step("return", TRUE)
    /\ UNCHANGED <<nets, input_collection, partition, outputs, calls, getInfo>>

NextBuilder ==
    \/ Networks \/ Select \/ EnrichStep \/ EmptyCheck \/ ReprojectInStep
    \/ MaskLandScaleStep \/ AttachPartitionStep \/ S2CloudlessStep
    \/ PassThrough \/ InvalidInputStep \/ Carry \/ ApplyNets \/ Combine
    \/ EmptyResult \/ Return


(***************************************************************************)
(* Inputs.                                                                 *)
(***************************************************************************)
Variables == {"Surface_Reflectance", "LAI"}
Sensors == {"COPERNICUS/S2_SR_HARMONIZED", "LANDSAT/LC08/C02/T1_L2"}

\* dictionariesSL2P.make_collection_options: the per-sensor options
ColOptions(name) ==
    [name |-> name,
     Network_Ind |-> {"lon", "Feature Index", "system:index", "Network1", "Network2"},
     numVariables |-> 2,
     Collection_SL2P |-> "estimates",
     Collection_SL2Perrors |-> "errors",
     sl2pDomain |-> <<0, 10>>]

\* dictionariesSL2P.make_net_options: the per-variable network options
NetOptions(variable) ==
    [variable |-> IF variable = "LAI" THEN 2 ELSE 1,
     inputBands |-> {"B4", "B8"},
     inputScaling |-> 2,
     inputOffset |-> 1]

\* image blocks the archive is drawn from
BlockPool ==
    { [n |-> 5001, footprint |-> {1},    day |-> 1,      cloud |-> 10, month |-> 1],
      [n |-> 2500, footprint |-> {1, 2}, day |-> 2,      cloud |-> 60, month |-> 7],
      [n |-> 2500, footprint |-> {2},    day |-> 0,      cloud |-> 10, month |-> 7],
      [n |-> 1,    footprint |-> {1},    day |-> MaxDay, cloud |-> 10, month |-> 12] }

Archives == UNION { [1..m -> BlockPool] : m \in 0..MaxBlocks }

Regions == { {1}, {2} }
Classes == {0, 1, 2, 3, 99}
RawValues == {2, 7}

FixedScene ==
    [p \in Pixels |-> [val |-> IF p = "p1" THEN 2 ELSE 7, clear |-> TRUE, land |-> TRUE]]
FixedLandcover == [p \in Pixels |-> IF p = "p1" THEN 1 ELSE 2]

Args(name, variable, mapBounds, startDate, endDate, cal, maxCloudcover) ==
    [colOptions |-> ColOptions(name), netOptions |-> NetOptions(variable),
     variable |-> variable, mapBounds |-> mapBounds,
     startDate |-> startDate, endDate |-> endDate,
     rangeStart |-> cal[1], rangeEnd |-> cal[2],
     maxCloudcover |-> maxCloudcover, inputScale |-> 20, outputScale |-> 30]

Idle == [pc |-> "idle"]

InitLocals ==
    /\ pc = "networks"
    /\ nets = [numNets |-> 0, SL2P |-> <<>>, SL2Puncertainty |-> <<>>]
    /\ input_collection = EmptyCollection
    /\ partition = [p \in Pixels |-> 0]
    /\ outputs = EmptyCollection
    /\ calls = <<>>
    /\ done = <<>>
    /\ getInfo = <<>>

\* one call of makeProductCollection, over every archive and query
InitBuilder ==
    /\ entry = "makeProductCollection"
    /\ sites = Idle /\ conc = Idle /\ dateCall = Idle
    /\ \E name \in Sensors, variable \in Variables, mapBounds \in Regions,
          startDate \in 0..MaxDay, cal \in {<<1, 12>>, <<11, 2>>},
          maxCloudcover \in {50, 100} :
         \E endDate \in startDate..(MaxDay + 1) :
            args = Args(name, variable, mapBounds, startDate, endDate, cal, maxCloudcover)
    /\ \E archive \in Archives :
         world = [archive |-> archive, scene |-> FixedScene, landcover |-> FixedLandcover]
    /\ InitLocals

\* one call of makeProductCollection, over every scene and land-cover map
InitPixels ==
    /\ entry = "makeProductCollection"
    /\ sites = Idle /\ conc = Idle /\ dateCall = Idle
    /\ \E name \in Sensors, variable \in Variables :
         args = Args(name, variable, {1}, 0, MaxDay + 1, <<1, 12>>, 100)
    /\ \E archive \in {a \in Archives : Len(a) <= 1},
          scene \in [Pixels -> [val : RawValues, clear : BOOLEAN, land : BOOLEAN]],
          landcover \in [Pixels -> Classes] :
         world = [archive |-> archive, scene |-> scene, landcover |-> landcover]
    /\ InitLocals

SpecBuilder == InitBuilder /\ [][NextBuilder]_vars
SpecPixels == InitPixels /\ [][NextBuilder]_vars


(***************************************************************************)
(* makeProductCollection as one call: what it returns and the blocking     *)
(* getInfo() calls it makes (lines 90 and 120).                            *)
(***************************************************************************)
makeProductCollection(a, w) ==
    LET n == MakeNetworks(a.colOptions)
        enriched == Enrich(SelectImages(a, w))
    IN IF HasProducts(enriched)
       THEN LET part == PartitionBand(a, w)
                cond == S2Cloudless(
                           AttachPartition(MaskLandScale(ReprojectIn(enriched, a), a)), a)
            IN IF IsReflectance(a.variable)
               THEN [outputs |-> cond, getInfo |-> <<90>>]
               ELSE LET flagged == invalidInput(cond, a.colOptions)
                    IN [outputs |->
                           CombineReprojectOut(SelectCarried(flagged),
                                               EstimateCall(n, part, a, flagged),
                                               UncertaintyCall(n, part, a, flagged), a),
                        getInfo |-> <<90, 120>>]
       ELSE [outputs |-> EmptyCollection, getInfo |-> <<90>>]

(***************************************************************************)
(* sampleSites (lines 302-461) and imageSites (lines 468-640).             *)
(*                                                                         *)
(* A site is a feature collection: the region its features lie in and the  *)
(* system:time_start day of each feature.  Dates are whole days; a shard    *)
(* frequency is a period in days whose anchors are the multiples of the    *)
(* period (as 'ys' anchors on the first day of each year).                 *)
(***************************************************************************)
MaxTasks == 3       \* tasks in the list one image export returns
MaxSites == 2       \* feature collections in siteList

Num(v) == [nan |-> FALSE, v |-> v]
NaN == [nan |-> TRUE, v |-> 0]

\* np.sort of a pair: ascending, NaN last
npSort(r) ==
    IF r[1].nan THEN <<r[2], r[1]>>
    ELSE IF r[2].nan THEN r
    ELSE IF r[1].v <= r[2].v THEN r ELSE <<r[2], r[1]>>

\* np.nanmax([x, y]) and np.nanmin([x, y]) with y a number
nanmax(x, y) == IF x.nan THEN y ELSE Max(x.v, y)
nanmin(x, y) == IF x.nan THEN y ELSE Min(x.v, y)

\* sort('system:time_start', False): descending
RECURSIVE SortDesc(_)
SortDesc(q) ==
    IF q = <<>> THEN <<>>
    ELSE LET m == CHOOSE i \in 1..Len(q) : \A j \in 1..Len(q) : q[j] <= q[i]
         IN <<q[m]>> \o SortDesc(SubSeq(q, 1, m - 1) \o SubSeq(q, m + 1, Len(q)))

\* pd.date_range(startDate, endDate, freq): the anchors within [start, end]
RECURSIVE date_range(_, _, _)
date_range(startDate, endDate, freq) ==
    IF startDate > endDate THEN <<>>
    ELSE (IF startDate % freq = 0 THEN <<startDate>> ELSE <<>>)
         \o date_range(startDate + 1, endDate, freq)

\* lines 288-295
splitDates(startDate, endDate, shardSize) ==
    LET r == date_range(startDate, endDate, shardSize)
        endDates == SubSeq(r, 1, Len(r) - 1)
        starts == <<startDate>> \o endDates
        ends == endDates \o <<endDate>>
    IN [j \in 1..Len(starts) |-> [startDate |-> starts[j], endDate |-> ends[j]]]

\* lines 266-284, for a feature whose system:time_start is a unix epoch and
\* which has no system:time_end
createDates(day, bufferTemporalSize) ==
    LET startDate == day + bufferTemporalSize[1]
        endDate == startDate - bufferTemporalSize[1] + bufferTemporalSize[2]
    IN <<startDate, endDate + 1>>

\* lines 384-387
DateRange(startDate, endDate, shardSize, defaultDate) ==
    IF Len(date_range(startDate, endDate, shardSize)) > 0 /\ defaultDate
    THEN splitDates(startDate, endDate, shardSize)
    ELSE <<[startDate |-> startDate, endDate |-> endDate]>>

\* the builder arguments getSamples / getImages pass on (lines 225-236, 183-194)
ShardArgs(a, region, startDate, endDate) ==
    Args(a.imageCollectionName, a.variableName, region, startDate, endDate,
         a.calendarRange, a.maxCloudcover)

\* Python truth value of an Earth Engine object: ee.ComputedObject defines
\* neither __bool__ nor __len__, so every such object is true
Truthy(eeObject) == TRUE

SitesOnly == UNCHANGED <<entry, bvars, conc, dateCall>>

\* lines 323-346 and 490-514: parse the dates, sort the feature range
Start ==
    /\ sites.pc = "start"
    /\ sites' = [sites EXCEPT
          !.pc = "siteLoop",
          !.startDate = IF sites.a.dates.default THEN sites.a.dates.startDate ELSE @,
          !.endDate = IF sites.a.dates.default THEN sites.a.dates.endDate ELSE @,
          !.featureRange = npSort(sites.a.featureRange)]
    /\ UNCHANGED getInfo
    /\ SitesOnly

\* lines 350 and 518: the next element of siteList
SiteLoopNext ==
    /\ sites.pc = "siteLoop"
    /\ sites.i < Len(sites.a.siteList)
    /\ sites' = [sites EXCEPT !.pc = "siteLoad", !.i = @ + 1]
    /\ UNCHANGED getInfo
    /\ SitesOnly

\* sampleSites: siteList is exhausted without a return statement being reached
SiteLoopEndSample ==
    /\ entry = "sampleSites"
    /\ sites.pc = "siteLoop"
    /\ sites.i >= Len(sites.a.siteList)
    /\ sites' = [sites EXCEPT !.pc = "returned", !.retval = "None"]
    /\ UNCHANGED getInfo
    /\ SitesOnly

\* imageSites, line 640: return True after the loop
SiteLoopEndImage ==
    /\ entry = "imageSites"
    /\ sites.pc = "siteLoop"
    /\ sites.i >= Len(sites.a.siteList)
    /\ sites' = [sites EXCEPT !.pc = "returned", !.retval = "True"]
    /\ UNCHANGED getInfo
    /\ SitesOnly

\* the blocking sampleRecords.size().getInfo() of line 355 (sampleSites) and
\* of line 523 (imageSites)
SizeLine(e) == IF e = "sampleSites" THEN 355 ELSE 523

\* the blocking sampleRecords.size().getInfo() of line 359 (sampleSites) and
\* of line 527 (imageSites)
ClampLine(e) == IF e = "sampleSites" THEN 359 ELSE 527

\* lines 353-355 and 521-523
SiteLoad ==
    /\ sites.pc = "siteLoad"
    /\ sites' = [sites EXCEPT
          !.pc = "clamp",
          !.sampleRecords = SortDesc(sites.a.siteList[sites.i].days)]
    /\ getInfo' = Append(getInfo, SizeLine(entry))
    /\ SitesOnly

\* lines 358-359 and 526-527
ClampRange ==
    /\ sites.pc = "clamp"
    /\ sites' = [sites EXCEPT
          !.pc = "checkDest",
          !.featureRange =
              <<Num(nanmax(sites.featureRange[1], 0)),
                Num(nanmin(sites.featureRange[2], Len(sites.sampleRecords)))>>]
    /\ getInfo' = Append(getInfo, ClampLine(entry))
    /\ SitesOnly

\* sampleSites, lines 362-363
DestinationMissingSample(a) == a.exportDevice = "None"
\* imageSites, lines 530-531
DestinationMissingImage(a) == a.outputPath = "None"

CheckDest(missing) ==
    /\ sites.pc = "checkDest"
    /\ sites' = IF missing
                THEN [sites EXCEPT !.pc = "raised", !.err = "ValueError"]
                ELSE [sites EXCEPT !.pc = "range"]
    /\ UNCHANGED getInfo
    /\ SitesOnly

CheckDestSample ==
    entry = "sampleSites" /\ CheckDest(DestinationMissingSample(sites.a))
CheckDestImage ==
    entry = "imageSites" /\ CheckDest(DestinationMissingImage(sites.a))

\* np.sort of a list that holds NaN is a float64 array, and an np.int32
\* assigned into it (lines 358-359, 526-527) is stored as float64
IsFloatArray(featureRange) == featureRange[1].nan \/ featureRange[2].nan

\* lines 368 and 536: for n in range(featureRange[0], featureRange[1]+1)
LastFeature(featureRange) == featureRange[2].v

\* lines 368 and 536: range() accepts integers only
FeatureRange ==
    /\ sites.pc = "range"
    /\ sites' = IF IsFloatArray(sites.a.featureRange)
                THEN [sites EXCEPT !.pc = "raised", !.err = "TypeError"]
                ELSE [sites EXCEPT !.pc = "featureLoop", !.n = sites.featureRange[1].v]
    /\ UNCHANGED getInfo
    /\ SitesOnly

FeatureLoop ==
    /\ sites.pc = "featureLoop"
    /\ sites' = IF sites.n <= LastFeature(sites.featureRange)
                THEN [sites EXCEPT !.pc = "featureDates"]
                ELSE [sites EXCEPT !.pc = "siteDone"]
    /\ UNCHANGED getInfo
    /\ SitesOnly

\* sampleRecords.get(n) names a feature only for 0 <= n < size; any other n
\* makes the first getInfo() that involves the feature fail in the backend
ValidFeature(s) == 0 <= s.n /\ s.n < Len(s.sampleRecords)

\* lines 371-375 and 539-543: with a default date range createDates is not
\* called and lines 384-387 build the shards; otherwise createDates starts
\* with the blocking read of system:time_start (line 268)
FeatureDates ==
    /\ sites.pc = "featureDates"
    /\ IF sites.a.dates.default
       THEN /\ sites' = [sites EXCEPT
                  !.pc = "shardLoop", !.k = 1,
                  !.dateRange = DateRange(sites.startDate, sites.endDate,
                                          sites.a.shardSize, TRUE)]
            /\ UNCHANGED getInfo
       ELSE IF ValidFeature(sites)
       THEN /\ sites' = [sites EXCEPT
                  !.pc = "startDate",
                  !.time_start = sites.sampleRecords[sites.n + 1]]
            /\ getInfo' = Append(getInfo, 268)
       ELSE /\ sites' = [sites EXCEPT !.pc = "raised", !.err = "EEException"]
            /\ getInfo' = Append(getInfo, 268)
    /\ SitesOnly

\* createDates, lines 271-272: the epoch is read a second time and the start
\* date is computed from it
FeatureStartDate ==
    /\ sites.pc = "startDate"
    /\ sites' = [sites EXCEPT
          !.pc = "endDate",
          !.startDate = createDates(sites.time_start, sites.a.dates.buffer)[1]]
    /\ getInfo' = Append(getInfo, 272)
    /\ SitesOnly

\* createDates, lines 276 and 283-284: the property names are read, the
\* feature has no system:time_end; then lines 384-387 (552-555)
FeatureEndDate ==
    /\ sites.pc = "endDate"
    /\ LET d == createDates(sites.time_start, sites.a.dates.buffer)
       IN sites' = [sites EXCEPT
             !.pc = "shardLoop", !.k = 1,
             !.endDate = d[2],
             !.dateRange = DateRange(sites.startDate, d[2], sites.a.shardSize, FALSE)]
    /\ getInfo' = Append(getInfo, 276)
    /\ SitesOnly

\* lines 390 and 558: for index, Dates in dateRange.iterrows()
ShardLoop ==
    /\ sites.pc = "shardLoop"
    /\ sites' = IF sites.k <= Len(sites.dateRange)
                THEN [sites EXCEPT !.pc = "build"]
                ELSE [sites EXCEPT !.pc = "featureLoop", !.n = @ + 1]
    /\ UNCHANGED getInfo
    /\ SitesOnly


\* ee.Feature(site).buffer(distance): the region grown by distance
Buffer(region, distance) ==
    {c \in UNION Regions : \E r \in region : c - r \in (0 - distance)..distance}

\* lines 175-176 and 218-219: the site is buffered when bufferSpatialSize > 0
BufferSite(region, bufferSpatialSize) ==
    IF bufferSpatialSize > 0 THEN Buffer(region, bufferSpatialSize) ELSE region

\* site.geometry() of the feature being processed, as getSamples and getImages
\* pass it to the builder (lines 228, 186)
Geometry(s) == BufferSite(s.a.siteList[s.i].region, s.a.bufferSpatialSize)

Shard(s) == s.dateRange[s.k]

\* the builder call of lines 225-236 / 183-194 for the current shard: the shard's
\* start date and its end date plus one day (lines 402-403, 570-571)
BuildShard(s, w) ==
    makeProductCollection(
        ShardArgs(s.a, Geometry(s), Shard(s).startDate, Shard(s).endDate + 1), w)

BuilderCall(s, r) ==
    [i |-> s.i, n |-> s.n, k |-> s.k,
     startDate |-> Shard(s).startDate, endDate |-> Shard(s).endDate + 1,
     images |-> Count(r.outputs.images)]

\* lines 222, 239-243: the geometry-only collection unless the product
\* collection has an image, then the samples of every image
SampleCollection(r) ==
    IF Truthy(r.outputs) /\ Count(r.outputs.images) > 0
    THEN [kind |-> "samples", images |-> Count(r.outputs.images)]
    ELSE [kind |-> "geometry", images |-> 0]

\* the builder called by getSamples (line 225) and getImages (line 183) runs
\* up to its blocking size().getInfo() of line 90
BuilderSize ==
    /\ sites.pc = "build"
    /\ IF ValidFeature(sites)
       THEN LET r == BuildShard(sites, world)
            IN sites' = [sites EXCEPT
                  !.pc = IF Len(r.getInfo) > 1 THEN "builderBands" ELSE "builderReturn"]
       ELSE sites' = [sites EXCEPT !.pc = "raised", !.err = "EEException"]
    /\ getInfo' = Append(getInfo, 90)
    /\ SitesOnly

\* the builder goes on to its blocking bandNames().getInfo() of line 120
BuilderBands ==
    /\ sites.pc = "builderBands"
    /\ sites' = [sites EXCEPT !.pc = "builderReturn"]
    /\ getInfo' = Append(getInfo, 120)
    /\ SitesOnly

\* sampleSites, lines 395-409: getSamples (lines 201-243) receives the
\* product collection and asks for its size (line 240)
GetSamples ==
    /\ entry = "sampleSites"
    /\ sites.pc = "builderReturn"
    /\ LET r == BuildShard(sites, world)
       IN sites' = [sites EXCEPT
             !.pc = "export",
             !.builderCalls = Append(@, BuilderCall(sites, r)),
             !.ofc = SampleCollection(r)]
    /\ getInfo' = Append(getInfo, 240)
    /\ SitesOnly

\* imageSites, lines 563-575: getImages (lines 159-197) returns the product
\* collection
GetImages ==
    /\ entry = "imageSites"
    /\ sites.pc = "builderReturn"
    /\ LET r == BuildShard(sites, world)
       IN sites' = [sites EXCEPT
             !.pc = "export",
             !.builderCalls = Append(@, BuilderCall(sites, r)),
             !.ofc = [kind |-> "images", images |-> Count(r.outputs.images)]]
    /\ UNCHANGED getInfo
    /\ SitesOnly

Task(s, collection) ==
    [i |-> s.i, n |-> s.n, k |-> s.k, device |-> s.a.exportDevice,
     path |-> s.a.outputPath, collection |-> collection]

NextShard(s) == [s EXCEPT !.pc = "shardLoop", !.k = @ + 1]

\* sampleSites, lines 411-423, 433 and 443: the branch on the export device,
\* up to the first blocking read of the site's prefix property
ExportSamples ==
    /\ entry = "sampleSites"
    /\ sites.pc = "export"
    /\ IF ~Truthy(sites.ofc)
       THEN sites' = NextShard(sites) /\ UNCHANGED getInfo
       ELSE CASE sites.a.exportDevice = "Client" ->
                   \* line 415 reads samplesDF, which no statement has assigned
                   /\ sites' = IF sites.samplesDF = "unbound"
                               THEN [sites EXCEPT !.pc = "raised",
                                                  !.err = "UnboundLocalError"]
                               ELSE NextShard(sites)
                   /\ UNCHANGED getInfo
              [] sites.a.exportDevice \in {"Drive", "CloudStorage"} ->
                   \* the description, line 422 or 433
                   /\ sites' = [sites EXCEPT !.pc = "exportPrefix"]
                   /\ getInfo' = Append(getInfo,
                         IF sites.a.exportDevice = "Drive" THEN 422 ELSE 433)
              [] sites.a.exportDevice = "Asset" ->
                   \* line 443 reads sampleFeatureCollection, a name never defined
                   /\ sites' = [sites EXCEPT !.pc = "raised", !.err = "NameError"]
                   /\ UNCHANGED getInfo
              [] OTHER ->
                   sites' = NextShard(sites) /\ UNCHANGED getInfo
    /\ SitesOnly

\* sampleSites, lines 423-426 and 434-437: the file name prefix is read and
\* the export task is created
ExportSamplesTask ==
    /\ entry = "sampleSites"
    /\ sites.pc = "exportPrefix"
    /\ sites' = [sites EXCEPT !.pc = "exportStart",
                              !.task = <<Task(sites, sites.ofc)>>]
    /\ getInfo' = Append(getInfo,
          IF sites.a.exportDevice = "Drive" THEN 423 ELSE 434)
    /\ SitesOnly

\* sampleSites, lines 449-455: task.start()
StartSamplesTask ==
    /\ entry = "sampleSites"
    /\ sites.pc = "exportStart"
    /\ sites' = [NextShard(sites) EXCEPT !.tasks = @ \o sites.task, !.task = <<>>]
    /\ UNCHANGED getInfo
    /\ SitesOnly

\* imageSites, lines 577-587, 602 and 619: the branch on the export device, up
\* to the first blocking read of the site's prefix property
ExportImages ==
    /\ entry = "imageSites"
    /\ sites.pc = "export"
    /\ IF ~Truthy(sites.ofc)
       THEN sites' = NextShard(sites) /\ UNCHANGED getInfo
       ELSE CASE sites.a.exportDevice \in {"Drive", "CloudStorage", "Asset"} ->
                   /\ sites' = [sites EXCEPT !.pc = "exportPrefix"]
                   /\ getInfo' = Append(getInfo,
                         CASE sites.a.exportDevice = "Drive" -> 587
                           [] sites.a.exportDevice = "CloudStorage" -> 602
                           [] OTHER -> 619)
              [] OTHER ->
                   sites' = NextShard(sites) /\ UNCHANGED getInfo
    /\ SitesOnly

\* lines 594 and 610: geetools' Export.imagecollection returns a list of
\* tasks for the collection.  The library decides how long the list is; a run
\* has one library, which answers by whether the collection has an image
ImageTasks(s) ==
    [j \in 1..s.geetools[s.ofc.images > 0] |-> Task(s, s.ofc)]

\* imageSites, lines 592-594, 607-610 and 620-627: the second read of the
\* prefix property, then the export of the image collection is requested;
\* with an empty list of tasks the loop of line 631 has nothing to start
ExportImagesTask ==
    /\ entry = "imageSites"
    /\ sites.pc = "exportPrefix"
    /\ IF sites.a.exportDevice = "Asset"
       THEN \* line 625 looks up toCAsset, which the export namespace lacks
            /\ sites' = [sites EXCEPT !.pc = "raised", !.err = "AttributeError"]
            /\ getInfo' = Append(getInfo, 620)
       ELSE /\ sites' = IF ImageTasks(sites) = <<>>
                        THEN NextShard(sites)
                        ELSE [sites EXCEPT !.pc = "exportStart",
                                           !.task = ImageTasks(sites)]
            /\ getInfo' = Append(getInfo,
                  IF sites.a.exportDevice = "Drive" THEN 592 ELSE 607)
    /\ SitesOnly

\* imageSites, lines 631-636: one pass of 'for task in tasks', which starts
\* the next task of the list; after the last one the shard is done
StartImagesTask ==
    /\ entry = "imageSites"
    /\ sites.pc = "exportStart"
    /\ sites.task # <<>>
    /\ sites' = IF Tail(sites.task) = <<>>
                THEN [NextShard(sites) EXCEPT !.tasks = Append(@, Head(sites.task)),
                                              !.task = <<>>]
                ELSE [sites EXCEPT !.tasks = Append(@, Head(sites.task)),
                                   !.task = Tail(@)]
    /\ UNCHANGED getInfo
    /\ SitesOnly

\* sampleSites, lines 459-461: return True, inside the loop over siteList
SiteDoneSample ==
    /\ entry = "sampleSites"
    /\ sites.pc = "siteDone"
    /\ sites' = [sites EXCEPT !.pc = "returned", !.retval = "True"]
    /\ UNCHANGED getInfo
    /\ SitesOnly

\* imageSites, line 639: the loop over siteList goes on
SiteDoneImage ==
    /\ entry = "imageSites"
    /\ sites.pc = "siteDone"
    /\ sites' = [sites EXCEPT !.pc = "siteLoop"]
    /\ UNCHANGED getInfo
    /\ SitesOnly

NextSites ==
    \/ Start \/ SiteLoopNext \/ SiteLoopEndSample \/ SiteLoopEndImage
    \/ SiteLoad \/ ClampRange \/ CheckDestSample \/ CheckDestImage
    \/ FeatureRange \/ FeatureLoop
    \/ FeatureDates \/ FeatureStartDate \/ FeatureEndDate \/ ShardLoop
    \/ BuilderSize \/ BuilderBands \/ GetSamples \/ GetImages
    \/ ExportSamples \/ ExportSamplesTask \/ StartSamplesTask
    \/ ExportImages \/ ExportImagesTask \/ StartImagesTask
    \/ SiteDoneSample \/ SiteDoneImage

\* feature collections siteList is drawn from
SitePool ==
    { [region |-> {1}, days |-> <<1>>],
      [region |-> {2}, days |-> <<0, 2>>] }

SiteLists == UNION { [1..m -> SitePool] : m \in 0..MaxSites }

FeatureRanges ==
    { <<Num(0), NaN>>, <<Num(0), Num(0)>>, <<Num(0), Num(1)>>, <<Num(3), Num(1)>>,
      <<Num(-2), Num(-1)>> }

Destinations ==
    { <<"Asset", "folder">>, <<"Drive", "folder">>, <<"CloudStorage", "folder">>,
      <<"Client", "folder">>, <<"None", "folder">>, <<"Drive", "None">>,
      <<"None", "None">> }

\* bufferTemporalSize: two date strings (a default date range) or two day offsets
DateOptions ==
    { [default |-> FALSE, startDate |-> 0, endDate |-> 0, buffer |-> <<0, 0>>] }
    \cup { [default |-> TRUE, startDate |-> d[1], endDate |-> d[2], buffer |-> <<0, 0>>] :
             d \in { <<0, MaxDay>>, <<1, MaxDay>>, <<1, 1>> } }

InitSites ==
    /\ entry \in {"sampleSites", "imageSites"}
    /\ conc = Idle /\ dateCall = Idle
    /\ \E siteList \in SiteLists, featureRange \in FeatureRanges,
          dest \in Destinations, dates \in DateOptions, shardSize \in {1, 2},
          bufferSpatialSize \in {0, 1}, geetools \in [BOOLEAN -> 0..MaxTasks] :
         /\ ~(entry = "imageSites" /\ dest[1] \in {"Drive", "CloudStorage"}
                /\ dest[2] # "None")
               => geetools = [hasImages \in BOOLEAN |-> 1]
         /\ ~dates.default => shardSize = 2
         /\ sites =
              [pc |-> "start",
               a |-> [siteList |-> siteList, featureRange |-> featureRange,
                      exportDevice |-> dest[1], outputPath |-> dest[2],
                      dates |-> dates, shardSize |-> shardSize,
                      bufferSpatialSize |-> bufferSpatialSize,
                      imageCollectionName |-> "LANDSAT/LC08/C02/T1_L2",
                      variableName |-> "LAI",
                      calendarRange |-> <<1, 12>>, maxCloudcover |-> 100],
               i |-> 0, sampleRecords |-> <<>>,
               featureRange |-> featureRange, n |-> 0, time_start |-> 0,
               startDate |-> 0, endDate |-> 0, dateRange |-> <<>>, k |-> 0,
               ofc |-> [kind |-> "none", images |-> 0],
               builderCalls |-> <<>>, task |-> <<>>, tasks |-> <<>>,
               geetools |-> geetools,
               samplesDF |-> "unbound", retval |-> "", err |-> ""]
    /\ args = Args("LANDSAT/LC08/C02/T1_L2", "LAI", {1}, 0, 0, <<1, 12>>, 100)
    /\ \E archive \in {a \in Archives : Len(a) <= 1} :
         world = [archive |-> archive, scene |-> FixedScene, landcover |-> FixedLandcover]
    /\ InitLocals

SpecSites == InitSites /\ [][NextSites]_vars

(***************************************************************************)
(* Concurrent invocations of makeProductCollection (lines 51-137).  Every   *)
(* invocation runs the statement groups of the builder in program order;   *)
(* the invocations interleave statement group by statement group.  They    *)
(* are handed the same colOptions and netOptions objects, as getSamples    *)
(* and getImages hand every shard the dictionaries sampleSites built once  *)
(* (lines 344-345, 397-398).                                               *)
(***************************************************************************)
MaxCalls == 2       \* invocations in flight

\* a variant in which the builder's locals are module-level names
FrameShared(p) == 1

\* the frame holding the locals of invocation p: a Python call has its own
FrameOf(p) == p

\* the argument objects every invocation receives by reference
Shared(name) ==
    [colOptions |-> ColOptions(name),
     netOptions |-> [v \in Variables |-> NetOptions(v)]]

\* the arguments as invocation p reads them
ArgsOf(c, p) ==
    [colOptions |-> c.shared.colOptions,
     netOptions |-> c.shared.netOptions[c.inv[p].variable],
     variable |-> c.inv[p].variable, mapBounds |-> c.inv[p].mapBounds,
     startDate |-> c.inv[p].startDate, endDate |-> c.inv[p].endDate,
     rangeStart |-> 1, rangeEnd |-> 12,
     maxCloudcover |-> 100, inputScale |-> 20, outputScale |-> 30]

InitFrame ==
    [nets |-> [numNets |-> 0, SL2P |-> <<>>, SL2Puncertainty |-> <<>>],
     input_collection |-> EmptyCollection,
     partition |-> [p \in Pixels |-> 0],
     outputs |-> EmptyCollection,
     calls |-> <<>>]

\* the condition a statement group evaluates (lines 90 and 113)
ExecCond(name, f, a) ==
    CASE name = "emptyCheck" -> HasProducts(f.input_collection)
      [] name = "branch"     -> IsReflectance(a.variable)
      [] OTHER               -> TRUE

\* the assignments of one statement group of lines 66-137 to the locals f
ExecFrame(name, f, a, w) ==
    CASE name = "networks"  -> [f EXCEPT !.nets = MakeNetworks(a.colOptions)]
      [] name = "select"    -> [f EXCEPT !.input_collection = SelectImages(a, w)]
      [] name = "enrich"    -> [f EXCEPT !.input_collection = Enrich(@)]
      [] name = "reprojectIn" -> [f EXCEPT !.input_collection = ReprojectIn(@, a)]
      [] name = "maskLandScale" -> [f EXCEPT !.input_collection = MaskLandScale(@, a)]
      [] name = "attachPartition" ->
            [f EXCEPT !.partition = PartitionBand(a, w),
                      !.input_collection = AttachPartition(@)]
      [] name = "s2cloudless" -> [f EXCEPT !.input_collection = S2Cloudless(@, a)]
      [] name = "branch" ->
            IF IsReflectance(a.variable)
            THEN [f EXCEPT !.outputs = f.input_collection]
            ELSE [f EXCEPT !.input_collection = invalidInput(@, a.colOptions)]
      [] name = "carry" -> [f EXCEPT !.outputs = SelectCarried(f.input_collection)]
      [] name = "applyNets" ->
            [f EXCEPT !.calls =
                <<EstimateCall(f.nets, f.partition, a, f.input_collection),
                  UncertaintyCall(f.nets, f.partition, a, f.input_collection)>>]
      [] name = "combine" ->
            [f EXCEPT !.outputs = CombineReprojectOut(@, f.calls[1], f.calls[2], a)]
      [] name = "emptyResult" -> [f EXCEPT !.outputs = EmptyCollection]
      [] OTHER -> f

\* invocation p executes its next statement group; the groups of lines 90
\* and 120 wait for the backend
Run(p) ==
    /\ entry = "concurrent"
    /\ conc.inv[p].pc # "returned"
    /\ LET name == conc.inv[p].pc
           fr == FrameOf(p)
           f == conc.frames[fr]
           a == ArgsOf(conc, p)
       IN conc' = [conc EXCEPT
              !.frames[fr] = ExecFrame(name, f, a, world),
              !.inv[p].pc = After(name, ExecCond(name, f, a)),
              !.inv[p].retval = IF name = "return" THEN f.outputs ELSE @]
    /\ getInfo' = getInfo \o BlockingCalls(conc.inv[p].pc)
    /\ UNCHANGED <<entry, bvars, sites, dateCall>>

NextConc == \E p \in 1..MaxCalls : Run(p)

\* archives with images over region 2 only, and over both regions
ConcArchives ==
    {a \in Archives : Len(a) = 1 /\ a[1].footprint = {2}}
    \cup {a \in Archives : /\ Len(a) = 2
                           /\ a[1].footprint = {1} /\ a[1].day = 1
                           /\ a[2].footprint = {2}}

InitConc ==
    /\ entry = "concurrent"
    /\ sites = Idle /\ dateCall = Idle
    /\ args = Args("LANDSAT/LC08/C02/T1_L2", "LAI", {1}, 0, 0, <<1, 12>>, 100)
    /\ \E archive \in ConcArchives :
         world = [archive |-> archive, scene |-> FixedScene, landcover |-> FixedLandcover]
    /\ InitLocals
    /\ \E name \in {"COPERNICUS/S2_SR_HARMONIZED"},
          variable \in [1..MaxCalls -> Variables],
          mapBounds \in [1..MaxCalls -> Regions] :
         conc = [inv |-> [p \in 1..MaxCalls |->
                            [pc |-> "networks", variable |-> variable[p],
                             mapBounds |-> mapBounds[p],
                             startDate |-> 0, endDate |-> MaxDay + 1,
                             retval |-> EmptyCollection]],
                 frames |-> [p \in 1..MaxCalls |-> InitFrame],
                 shared |-> Shared(name)]

SpecConc == InitConc /\ [][NextConc]_vars

(***************************************************************************)
(* createDates (lines 266-284), with instants counted in hours since the   *)
(* epoch.  A date string names a day; an epoch value names an instant.     *)
(***************************************************************************)
TimeZones == {"Etc/GMT+6", "Etc/GMT", "Etc/GMT-5"}

\* hours east of UTC (the sign in an Etc/GMT name is reversed)
ZoneOffset(tz) ==
    CASE tz = "Etc/GMT+6" -> -6
      [] tz = "Etc/GMT-5" -> 5
      [] OTHER            -> 0

\* ee.Date.parse("YYYY-MM-dd", s, tz): the instant of midnight of day s in tz
DateParse(day, tz) == day * 24 - ZoneOffset(tz)

\* datetime.fromtimestamp: the naive local time of the host
fromtimestamp(t, hostZone) == t + ZoneOffset(hostZone)

\* timedelta(days=d)
timedelta(days) == days * 24

\* the zone line 274 passes for system:time_start
StartZone(timeZone) == "Etc/GMT+6"

\* lines 266-284
createDatesTZ(site, bufferTemporalSize, timeZone, hostZone) ==
    LET startDate ==
            IF site.time_start.epoch
            THEN fromtimestamp(site.time_start.v, hostZone)
                    + timedelta(bufferTemporalSize[1])
            ELSE fromtimestamp(DateParse(site.time_start.v, StartZone(timeZone)), hostZone)
                    + timedelta(bufferTemporalSize[1])
        endDate ==
            IF site.hasEnd
            THEN IF site.time_end.epoch
                 THEN fromtimestamp(site.time_end.v, hostZone)
                         + timedelta(bufferTemporalSize[2])
                 ELSE fromtimestamp(DateParse(site.time_end.v, timeZone), hostZone)
                         + timedelta(bufferTemporalSize[2])
            ELSE startDate - timedelta(bufferTemporalSize[1])
                    + timedelta(bufferTemporalSize[2])
    IN <<startDate, endDate + timedelta(1)>>

DatesOnly == UNCHANGED <<entry, bvars, sites, conc>>

\* line 268: the blocking read of system:time_start
CreateDatesTimeStart ==
    /\ entry = "createDates"
    /\ dateCall.pc = "call"
    /\ dateCall' = [dateCall EXCEPT !.pc = "startDate",
                                    !.time_start = dateCall.site.time_start]
    /\ getInfo' = Append(getInfo, 268)
    /\ DatesOnly

\* lines 271-274: an epoch is read again (line 272), a date string is parsed
\* in the backend (line 274)
CreateDatesStartDate ==
    /\ entry = "createDates"
    /\ dateCall.pc = "startDate"
    /\ IF dateCall.time_start.epoch
       THEN /\ dateCall' = [dateCall EXCEPT
                  !.pc = "propertyNames",
                  !.startDate = fromtimestamp(dateCall.site.time_start.v, dateCall.hostZone)
                                   + timedelta(dateCall.bufferTemporalSize[1])]
            /\ getInfo' = Append(getInfo, 272)
       ELSE /\ dateCall' = [dateCall EXCEPT
                  !.pc = "propertyNames",
                  !.startDate =
                      fromtimestamp(DateParse(dateCall.site.time_start.v,
                                              StartZone(dateCall.timeZone)),
                                    dateCall.hostZone)
                         + timedelta(dateCall.bufferTemporalSize[1])]
            /\ getInfo' = Append(getInfo, 274)
    /\ DatesOnly

\* line 276: the blocking read of the property names; without
\* system:time_end the end date comes from the start date (line 283) and the
\* call returns (line 284)
CreateDatesPropertyNames ==
    /\ entry = "createDates"
    /\ dateCall.pc = "propertyNames"
    /\ IF dateCall.site.hasEnd
       THEN dateCall' = [dateCall EXCEPT !.pc = "timeEnd"]
       ELSE LET endDate == dateCall.startDate
                              - timedelta(dateCall.bufferTemporalSize[1])
                              + timedelta(dateCall.bufferTemporalSize[2])
            IN dateCall' = [dateCall EXCEPT
                  !.pc = "returned", !.endDate = endDate,
                  !.result = <<dateCall.startDate, endDate + timedelta(1)>>]
    /\ getInfo' = Append(getInfo, 276)
    /\ DatesOnly

\* line 277: the blocking read of system:time_end
CreateDatesTimeEnd ==
    /\ entry = "createDates"
    /\ dateCall.pc = "timeEnd"
    /\ dateCall' = [dateCall EXCEPT !.pc = "endDate",
                                    !.time_end = dateCall.site.time_end]
    /\ getInfo' = Append(getInfo, 277)
    /\ DatesOnly

\* lines 278-281 and 284: an epoch is read again (line 279), a date string is
\* parsed in the backend with timeZone (line 281); the call returns
CreateDatesEndDate ==
    /\ entry = "createDates"
    /\ dateCall.pc = "endDate"
    /\ LET endDate ==
              IF dateCall.time_end.epoch
              THEN fromtimestamp(dateCall.site.time_end.v, dateCall.hostZone)
                      + timedelta(dateCall.bufferTemporalSize[2])
              ELSE fromtimestamp(DateParse(dateCall.site.time_end.v, dateCall.timeZone),
                                 dateCall.hostZone)
                      + timedelta(dateCall.bufferTemporalSize[2])
       IN dateCall' = [dateCall EXCEPT
             !.pc = "returned", !.endDate = endDate,
             !.result = <<dateCall.startDate, endDate + timedelta(1)>>]
    /\ getInfo' = Append(getInfo, IF dateCall.time_end.epoch THEN 279 ELSE 281)
    /\ DatesOnly

NextDates ==
    \/ CreateDatesTimeStart \/ CreateDatesStartDate \/ CreateDatesPropertyNames
    \/ CreateDatesTimeEnd \/ CreateDatesEndDate

\* a system:time_start / system:time_end property: a unix epoch instant (at
\* midnight UTC of a day) or a date string
TimeValues ==
    { [epoch |-> TRUE, v |-> d * 24] : d \in 0..MaxDay }
    \cup { [epoch |-> FALSE, v |-> d] : d \in 0..MaxDay }

Buffers == { <<0, 0>>, <<-1, 1>>, <<1, 1>> }

InitDates ==
    /\ entry = "createDates"
    /\ sites = Idle /\ conc = Idle
    /\ args = Args("LANDSAT/LC08/C02/T1_L2", "LAI", {1}, 0, 0, <<1, 12>>, 100)
    /\ world = [archive |-> <<>>, scene |-> FixedScene, landcover |-> FixedLandcover]
    /\ InitLocals
    /\ \E time_start \in TimeValues, time_end \in TimeValues, hasEnd \in BOOLEAN,
          bufferTemporalSize \in Buffers, timeZone \in TimeZones,
          hostZone \in {"Etc/GMT", "Etc/GMT+6"} :
         /\ ~hasEnd => time_end = time_start
         /\ dateCall = [pc |-> "call",
                        site |-> [time_start |-> time_start, hasEnd |-> hasEnd,
                                  time_end |-> time_end],
                        bufferTemporalSize |-> bufferTemporalSize,
                        timeZone |-> timeZone, hostZone |-> hostZone,
                        time_start |-> time_start, time_end |-> time_end,
                        startDate |-> 0, endDate |-> 0,
                        result |-> <<0, 0>>]

SpecDates == InitDates /\ [][NextDates]_vars

(***************************************************************************)
(* Properties of makeProductCollection.                                    *)
(***************************************************************************)
Ran(name) == \E i \in 1..Len(done) : done[i] = name
IsNetworkRun == args.variable # "Surface_Reflectance"

\* an archive image matches the query when it passes all four filters
Matches(b, a) ==
    /\ b.footprint \cap a.mapBounds # {}
    /\ a.startDate <= b.day /\ b.day < a.endDate
    /\ b.cloud < a.maxCloudcover
    /\ IF a.rangeStart <= a.rangeEnd
       THEN a.rangeStart <= b.month /\ b.month <= a.rangeEnd
       ELSE b.month >= a.rangeStart \/ b.month <= a.rangeEnd

RECURSIVE MatchCountOf(_, _)
MatchCountOf(images, a) ==
    IF images = <<>> THEN 0
    ELSE (IF Matches(Head(images), a) THEN Head(images).n ELSE 0)
         + MatchCountOf(Tail(images), a)
MatchCount == MatchCountOf(world.archive, args)

FilterOps == <<"filterBounds", "filterDate", "filterMetadata", "calendarRange">>

\* C1: whatever the archive and the query, the collection that is enriched,
\* conditioned and handed to the networks, and the collection returned, hold at
\* most 5000 images: exactly the first min(5000, matching) images that pass all
\* four filters; the cap is the fifth operation, after the four filters and
\* before every per-image transform.
C1_CapAtMost5000 ==
    /\ Count(input_collection.images) <= MaxImages
    /\ Count(outputs.images) <= MaxImages
    /\ \A i \in 1..Len(calls) : Count(calls[i].input.images) <= MaxImages
    /\ Ran("select") =>
          /\ Count(input_collection.images) = Min(MaxImages, MatchCount)
          /\ SubSeq(input_collection.ops, 1, 4) = FilterOps
          /\ input_collection.ops[5] = "limit"
          /\ \A i \in 6..Len(input_collection.ops) :
                input_collection.ops[i] \notin
                   {"limit", "filterBounds", "filterDate", "filterMetadata", "calendarRange"}

\* more than 5000 images match, and the network branch returned 5000 of them
C1_Witness ==
    /\ pc = "returned" /\ IsNetworkRun
    /\ MatchCount > MaxImages
    /\ Count(outputs.images) = MaxImages
    /\ Len(calls) = 2 /\ Count(calls[1].input.images) = MaxImages

\* C2: when no image passes the filters the builder returns the empty
\* collection, and none of reproject-in, land mask/scale, attach partition,
\* cloud-probability merge or network application is executed.
C2_EmptyShortCircuit ==
    MatchCount = 0 =>
        /\ \A i \in 1..Len(done) :
              done[i] \notin {"reprojectIn", "maskLandScale", "attachPartition",
                              "s2cloudless", "branch", "carry", "applyNets", "combine"}
        /\ calls = <<>>
        /\ pc = "returned" => outputs = EmptyCollection

\* a non-empty archive none of whose images matches, builder returned
C2_Witness ==
    /\ pc = "returned" /\ MatchCount = 0 /\ world.archive # <<>>
    /\ Ran("emptyResult") /\ outputs = EmptyCollection

\* C3: for "Surface_Reflectance" over a non-empty filtered collection no
\* network is applied and every returned image has exactly the bands of the
\* conditioned collection that reached the branch: the source bands, date,
\* longitude, latitude, partition and (Sentinel-2) s2cloudless_probability.
C3_ReflectancePassThrough ==
    (pc = "returned" /\ args.variable = "Surface_Reflectance" /\ MatchCount > 0) =>
        /\ calls = <<>>
        /\ ~Ran("carry") /\ ~Ran("applyNets") /\ ~Ran("combine")
        /\ outputs.bands = input_collection.bands
        /\ outputs.bands =
              SourceBands \cup {"date", "longitude", "latitude", "partition"}
              \cup (IF StartsWithS2SR(args.colOptions.name)
                    THEN {"s2cloudless_probability"} ELSE {})
        /\ outputs = input_collection

C3_Witness ==
    /\ pc = "returned" /\ args.variable = "Surface_Reflectance" /\ MatchCount > 0
    /\ "partition" \in outputs.bands
    /\ "s2cloudless_probability" \in outputs.bands

\* C4: the estimate and the error dispatcher invocations consume the same
\* partition band and the same conditioned collection, so a pixel gets an
\* estimate exactly when it gets an uncertainty, and both come from the
\* network of the same class.
C4_EstimateErrorAligned ==
    Len(calls) = 2 =>
        /\ calls[1].mode = "estimate" /\ calls[2].mode = "error"
        /\ calls[1].partition = calls[2].partition
        /\ calls[1].partition = partition
        /\ calls[1].input = calls[2].input
        /\ \A p \in Pixels :
              /\ (calls[1].out[p] = NoData) <=> (calls[2].out[p] = NoData)
              /\ calls[1].out[p].cls = calls[2].out[p].cls
              /\ calls[1].out[p].x = calls[2].out[p].x

\* both invocations made; one pixel estimated with class 1, another left no-data
C4_Witness ==
    /\ Len(calls) = 2
    /\ \E p, q \in Pixels :
          /\ calls[1].out[p] # NoData /\ calls[2].out[p].cls = 1
          /\ calls[1].out[q] = NoData

ConfiguredRange ==
    1..Cardinality(args.colOptions.Network_Ind \ {"lon", "Feature Index", "system:index"})

NetworkOf(collection, k) ==
    [col |-> collection, var |-> args.netOptions.variable, cls |-> k]

\* C5: in the returned images, a non-masked pixel whose partition value k is in
\* the configured range carries Network Evaluator(pixel input, Network[k]) of
\* the estimate bank in the estimate band and of the error bank in the error
\* band; a pixel whose partition value is outside the range (0, 3, 99) or
\* whose inputs are masked carries no-data in both.
C5_PartitionCoverage ==
    (pc = "returned" /\ IsNetworkRun /\ MatchCount > 0) =>
        \A p \in Pixels :
            LET k == world.landcover[p]
                px == outputs.px[p]
                x == input_collection.px[p].val
            IN IF k \in ConfiguredRange /\ ~px.masked
               THEN /\ px.est = NetworkEvaluator(x, NetworkOf(args.colOptions.Collection_SL2P, k))
                    /\ px.err = NetworkEvaluator(x, NetworkOf(args.colOptions.Collection_SL2Perrors, k))
               ELSE px.est = NoData /\ px.err = NoData

\* one pixel of class 2 evaluated, one of the unconfigured class 99 left no-data
C5_Witness ==
    /\ pc = "returned" /\ IsNetworkRun /\ MatchCount > 0
    /\ \E p, q \in Pixels :
          /\ world.landcover[p] = 2 /\ outputs.px[p].est.tag = "value"
          /\ world.landcover[q] = 99 /\ ~outputs.px[q].masked
          /\ outputs.px[q].est = NoData

\* position of a statement group in the order the code executes them
CodeRank(name) ==
    CASE name = "networks" -> 0
      [] name = "select" -> 1
      [] name = "enrich" -> 2
      [] name = "emptyCheck" -> 3
      [] name = "reprojectIn" -> 4
      [] name = "maskLandScale" -> 5
      [] name = "attachPartition" -> 6
      [] name = "s2cloudless" -> 7
      [] name = "branch" -> 8
      [] name = "carry" -> 9
      [] name = "applyNets" -> 10
      [] name = "combine" -> 11
      [] name = "emptyResult" -> 12
      [] OTHER -> 13

\* position of a statement group in the order the claim gives
ClaimRank(name) ==
    CASE name = "networks" -> 0
      [] name = "select" -> 1
      [] name = "emptyCheck" -> 2
      [] name = "enrich" -> 3
      [] name = "reprojectIn" -> 4
      [] name = "maskLandScale" -> 5
      [] name = "attachPartition" -> 6
      [] name = "s2cloudless" -> 7
      [] name = "branch" -> 8
      [] name = "carry" -> 9
      [] name = "applyNets" -> 10
      [] name = "combine" -> 11
      [] name = "emptyResult" -> 12
      [] OTHER -> 13

\* C6, as claimed: Select, Empty check, Enrich, ... in this order, the Enrich
\* transforms attached only after the Empty check found the collection
\* non-empty.
C6_ClaimedOrder ==
    /\ \A i, j \in 1..Len(done) : i < j => ClaimRank(done[i]) < ClaimRank(done[j])
    /\ Ran("enrich") => Ran("emptyCheck") /\ MatchCount > 0

\* C6, amended: the statement groups run in the order Select, Enrich, Empty
\* check, Reproject-in, Land mask + scale, Attach partition, Sensor-specific
\* enrichment, Branch, Terminal, each at most once and never going back; the
\* Enrich transforms are attached before the Empty check, also when the
\* filtered collection is empty.
C6_CodeOrder ==
    /\ \A i, j \in 1..Len(done) : i < j => CodeRank(done[i]) < CodeRank(done[j])
    /\ Ran("emptyCheck") => Ran("enrich")
    /\ Ran("enrich") =>
          SubSeq(input_collection.ops, 6, 10) =
             <<"clip", "MaskClear", "attach_Date", "attach_LonLat", "addGeometry">>

\* an empty filtered collection that was enriched before the empty check
C6_Witness ==
    /\ pc = "returned" /\ MatchCount = 0
    /\ Ran("enrich") /\ Ran("emptyCheck") /\ Ran("emptyResult")
    /\ Len(input_collection.ops) = 10


\* the step-by-step run of the builder returns what the one-call form returns
BuilderAgrees ==
    pc = "returned" =>
        /\ outputs = makeProductCollection(args, world).outputs
        /\ getInfo = makeProductCollection(args, world).getInfo

(***************************************************************************)
(* Properties of sampleSites and imageSites.                               *)
(***************************************************************************)
InSites == entry \in {"sampleSites", "imageSites"}

\* the destination setting each function tests before its feature loop
DestinationMissing ==
    \/ entry = "sampleSites" /\ sites.a.exportDevice = "None"
    \/ entry = "imageSites" /\ sites.a.outputPath = "None"

\* C7: with the required destination configuration missing, the fatal error
\* comes before any backend work: no getInfo() call, no builder invocation and
\* no export task in a run that has the setting missing.
C7_FailFast ==
    (InSites /\ DestinationMissing) =>
        /\ getInfo = <<>>
        /\ sites.builderCalls = <<>>
        /\ sites.tasks = <<>>

\* the statements between the return of getSamples / getImages and the end of
\* the shard's export
ExportSteps == {"export", "exportPrefix", "exportStart"}

\* C8: a shard whose filtered collection is empty produces no output:
\* getSamples yields no samples for it and sampleSites starts no export task
\* for it.
C8_EmptyShardNoOutput ==
    entry = "sampleSites" =>
        /\ sites.pc \in ExportSteps /\ sites.builderCalls[Len(sites.builderCalls)].images = 0
              => sites.ofc.kind # "samples"
        /\ \A c \in 1..Len(sites.builderCalls), t \in 1..Len(sites.tasks) :
              LET call == sites.builderCalls[c]
                  task == sites.tasks[t]
              IN (call.images = 0 /\ call.i = task.i /\ call.n = task.n
                    /\ call.k = task.k) => FALSE

\* the feature range sampleSites uses for the i-th element of siteList
RECURSIVE UpperAt(_, _)
UpperAt(a, i) ==
    IF i = 0 THEN npSort(a.featureRange)[2]
    ELSE Num(nanmin(UpperAt(a, i - 1), Len(a.siteList[i].days)))
LowerOf(a) == nanmax(npSort(a.featureRange)[1], 0)

ShardCount(a) ==
    IF a.dates.default
    THEN Len(DateRange(a.dates.startDate, a.dates.endDate, a.shardSize, TRUE))
    ELSE 1

\* C9: when sampleSites returns, every temporal shard of every feature in the
\* clamped range of every element of siteList has been passed to getSamples.
C9_AllSitesSampled ==
    (entry = "sampleSites" /\ sites.pc = "returned") =>
        \A i \in 1..Len(sites.a.siteList) :
          \A n \in LowerOf(sites.a)..UpperAt(sites.a, i).v :
            \A k \in 1..ShardCount(sites.a) :
               \E c \in 1..Len(sites.builderCalls) :
                  /\ sites.builderCalls[c].i = i
                  /\ sites.builderCalls[c].n = n
                  /\ sites.builderCalls[c].k = k

\* C10: with exportDevice 'Client', sampleSites adds the samples of every
\* processed shard to one data frame without failing, and returns that data
\* frame.
C10_ClientDataFrame ==
    (entry = "sampleSites" /\ sites.a.exportDevice = "Client") =>
        /\ sites.err # "UnboundLocalError"
        /\ (sites.pc = "returned" /\ sites.a.siteList # <<>>) => sites.retval = "DataFrame"

\* the export tasks sampleSites started for the shard of builder call c
TasksOf(c) ==
    {t \in 1..Len(sites.tasks) :
        /\ sites.tasks[t].i = sites.builderCalls[c].i
        /\ sites.tasks[t].n = sites.builderCalls[c].n
        /\ sites.tasks[t].k = sites.builderCalls[c].k}

\* the builder calls whose shard has gone through the export statements
Exported ==
    {c \in 1..Len(sites.builderCalls) :
        c < Len(sites.builderCalls) \/ sites.pc \notin ExportSteps}

\* C11: for exportDevice Asset, Drive or CloudStorage, every shard with an
\* output feature collection gets exactly one started export task, and that
\* task exports the collection getSamples returned for the shard; building the
\* export never fails.
C11_OneTaskPerShard ==
    (entry = "sampleSites" /\ sites.a.exportDevice \in {"Asset", "Drive", "CloudStorage"}) =>
        /\ sites.err # "NameError"
        /\ \A c \in Exported :
              /\ Cardinality(TasksOf(c)) = 1
              /\ \A t \in TasksOf(c) :
                    sites.tasks[t].collection.images = sites.builderCalls[c].images

\* C12: makeProductCollection performs no blocking call while it constructs
\* its transform graph; no backend value is materialized inside the builder.
C12_NoBlockingInBuilder ==
    entry = "makeProductCollection" => getInfo = <<>>

\* where the builder does block: at the collection size of the empty check
\* (line 90) in every invocation, and at the band names of the first image
\* (line 120) in the network branch only
BuilderBlockingPoints ==
    entry = "makeProductCollection" =>
        /\ ~Ran("emptyCheck") => getInfo = <<>>
        /\ (Ran("emptyCheck") /\ ~Ran("carry")) => getInfo = <<90>>
        /\ Ran("carry") => getInfo = <<90, 120>>
        /\ pc = "returned" =>
              getInfo = IF IsNetworkRun /\ MatchCount > 0 THEN <<90, 120>> ELSE <<90>>

\* the value a source pixel has after scaleBands (line 98)
ScaledValue(p) ==
    world.scene[p].val * args.netOptions.inputScaling + args.netOptions.inputOffset

OutOfDomain(p) ==
    \/ ScaledValue(p) < args.colOptions.sl2pDomain[1]
    \/ ScaledValue(p) > args.colOptions.sl2pDomain[2]

\* C13: an input value outside its domain sets the QC band and nothing else:
\* flagging masks no pixel, and the estimate and the error network are applied
\* to every clear land pixel of a configured class whatever its QC value.
C13_SoftDomain ==
    Len(calls) = 2 =>
        /\ "QC" \in input_collection.bands
        /\ \A p \in Pixels :
              LET px == input_collection.px[p]
                  k == partition[p]
              IN /\ px.QC = (IF OutOfDomain(p) THEN 1 ELSE 0)
                 /\ px.masked = (~world.scene[p].clear \/ ~world.scene[p].land)
                 /\ (~px.masked /\ k \in ConfiguredRange) =>
                       /\ calls[1].out[p] =
                             NetworkEvaluator(ScaledValue(p),
                                 NetworkOf(args.colOptions.Collection_SL2P, k))
                       /\ calls[2].out[p] =
                             NetworkEvaluator(ScaledValue(p),
                                 NetworkOf(args.colOptions.Collection_SL2Perrors, k))

\* a clear land pixel outside the domain: flagged, and both values produced
C13_Witness ==
    /\ pc = "returned" /\ Len(calls) = 2
    /\ \E p \in Pixels :
          /\ OutOfDomain(p) /\ outputs.px[p].QC = 1
          /\ outputs.px[p].est.tag = "value" /\ outputs.px[p].err.tag = "value"

\* C14: once the Land mask + scale step has run, every image carries the
\* quality-control band, whatever the requested variable; so every image of a
\* non-empty builder output has a QC band.
C14_QCAfterConditioning ==
    entry = "makeProductCollection" =>
        /\ Ran("maskLandScale") => "QC" \in input_collection.bands
        /\ (pc = "returned" /\ MatchCount > 0) => "QC" \in outputs.bands

\* C15: in the network branch every output image has exactly the carried
\* bands date, QC, longitude, latitude (and s2cloudless_probability exactly
\* when the input images have it), the estimate band and the band
\* 'error'+variable; no other input band is in the output, and the combined
\* image is resampled to outputScale as the last operation.
C15_NetworkOutputBands ==
    (entry = "makeProductCollection" /\ pc = "returned"
       /\ IsNetworkRun /\ MatchCount > 0) =>
        /\ outputs.bands =
              {"date", "QC", "longitude", "latitude"}
              \cup (IF "s2cloudless_probability" \in input_collection.bands
                    THEN {"s2cloudless_probability"} ELSE {})
              \cup {BandOf("estimate", args.variable), BandOf("error", args.variable)}
        /\ ("s2cloudless_probability" \in input_collection.bands)
              <=> StartsWithS2SR(args.colOptions.name)
        /\ outputs.bands \cap (SourceBands \cup {"partition"}) = {}
        /\ outputs.scale = args.outputScale
        /\ outputs.ops[Len(outputs.ops)] = "reprojectOut"
        /\ Count(outputs.images) = Count(input_collection.images)

\* a Sentinel-2 network run: cloud probability carried next to both products
C15_Witness ==
    /\ entry = "makeProductCollection" /\ pc = "returned"
    /\ IsNetworkRun /\ MatchCount > 0
    /\ {"s2cloudless_probability", "estimateLAI", "errorLAI", "QC"} \subseteq outputs.bands
    /\ "B4" \in input_collection.bands

\* two builder calls made for different shards of one feature
OtherShard(c, d) ==
    /\ sites.builderCalls[c].i = sites.builderCalls[d].i
    /\ sites.builderCalls[c].n = sites.builderCalls[d].n
    /\ sites.builderCalls[c].k # sites.builderCalls[d].k

\* C16: the date windows passed to the builder for two different shards of one
\* feature share no acquisition day (a window holds its start date and not its
\* end date), so no image is processed in two shards.
C16_ShardsDisjoint ==
    InSites =>
        \A c, d \in 1..Len(sites.builderCalls) :
            OtherShard(c, d) =>
                \/ sites.builderCalls[c].endDate <= sites.builderCalls[d].startDate
                \/ sites.builderCalls[d].endDate <= sites.builderCalls[c].startDate

\* a step of the builder assigns its locals as ExecFrame does
BuilderIsExec ==
    [][entry = "makeProductCollection" =>
         [nets |-> nets', input_collection |-> input_collection',
          partition |-> partition', outputs |-> outputs', calls |-> calls']
         = ExecFrame(pc,
              [nets |-> nets, input_collection |-> input_collection,
               partition |-> partition, outputs |-> outputs, calls |-> calls],
              args, world)]_vars

\* the arguments of invocation p, built for a call of its own
OwnArgs(p) ==
    Args(conc.shared.colOptions.name, conc.inv[p].variable, conc.inv[p].mapBounds,
         conc.inv[p].startDate, conc.inv[p].endDate, <<1, 12>>, 100)

\* C17: invocations of makeProductCollection share no mutable state and leave
\* their argument objects as they were: however the statement groups of the
\* invocations interleave, each invocation returns what it returns when it
\* runs alone.
C17_NoInterference ==
    entry = "concurrent" =>
        /\ conc.shared = Shared(conc.shared.colOptions.name)
        /\ \A p \in 1..MaxCalls :
              /\ ArgsOf(conc, p) = OwnArgs(p)
              /\ conc.inv[p].pc = "returned" =>
                    conc.inv[p].retval = makeProductCollection(OwnArgs(p), world).outputs

\* invocation 1 has returned images of its region while invocation 2, for the
\* other region, is between its own statements
C17_Witness ==
    /\ entry = "concurrent"
    /\ conc.inv[1].pc = "returned" /\ Count(conc.inv[1].retval.images) > 0
    /\ conc.inv[2].pc = "applyNets"
    /\ conc.inv[1].mapBounds # conc.inv[2].mapBounds
    /\ conc.frames[2].input_collection # conc.frames[1].input_collection

\* for an epoch system:time_start at midnight and no system:time_end the
\* hour-counted createDates is the day-counted one
DatesAgree ==
    (entry = "createDates" /\ dateCall.pc = "returned"
       /\ dateCall.site.time_start.epoch /\ ~dateCall.site.hasEnd) =>
        LET d == createDates(dateCall.site.time_start.v \div 24,
                             dateCall.bufferTemporalSize)
        IN dateCall.result = <<d[1] * 24 + ZoneOffset(dateCall.hostZone),
                               d[2] * 24 + ZoneOffset(dateCall.hostZone)>>

\* the statement-by-statement run of createDates returns what the one-call
\* form returns, after the blocking calls of its branch
DatesIsCall ==
    (entry = "createDates" /\ dateCall.pc = "returned") =>
        /\ dateCall.result = createDatesTZ(dateCall.site, dateCall.bufferTemporalSize,
                                           dateCall.timeZone, dateCall.hostZone)
        /\ getInfo = <<268, IF dateCall.site.time_start.epoch THEN 272 ELSE 274, 276>>
                       \o (IF dateCall.site.hasEnd
                           THEN <<277, IF dateCall.site.time_end.epoch THEN 279 ELSE 281>>
                           ELSE <<>>)

\* C18: date strings are read in the time zone of the timeZone argument, the
\* start like the end: for the same date string and the same buffer the start
\* instant is the end instant (the returned end is one day later), whatever
\* timeZone is.
C18_SameZone ==
    (entry = "createDates" /\ dateCall.pc = "returned"
       /\ ~dateCall.site.time_start.epoch
       /\ dateCall.site.hasEnd /\ ~dateCall.site.time_end.epoch
       /\ dateCall.site.time_end.v = dateCall.site.time_start.v
       /\ dateCall.bufferTemporalSize[1] = dateCall.bufferTemporalSize[2]) =>
        dateCall.result[2] - timedelta(1) = dateCall.result[1]

\* C19: every index n that sampleSites and imageSites fetch with
\* sampleRecords.get(n) names a feature of the current site, 0 <= n < size,
\* whatever feature range is requested; no fetch fails in the backend.
C19_IndexInRange ==
    InSites =>
        /\ sites.pc \in {"startDate", "endDate", "shardLoop", "build", "builderBands",
                        "builderReturn"} \cup ExportSteps => ValidFeature(sites)
        /\ sites.err # "EEException"

====
